---- MODULE Spec2Model ----
(***************************************************************************)
(* A model of sorted_set_nif: the NIF boundary of lib.rs (handle decoding, *)
(* term conversion, the try_lock on the resource's Mutex, result encoding) *)
(* over the bucketed ordered-set engine (modules sorted_set, bucket,       *)
(* supported_term and configuration, which lib.rs declares and calls).     *)
(***************************************************************************)
EXTENDS Integers, Sequences, FiniteSets, TLC

(***************************************************************************)
(* Bounds of the model.                                                    *)
(***************************************************************************)
\* largest max_bucket_size a set is created with
MaxBucketSize == 2
\* no call that would create a bucket beyond this many is started
MaxBuckets == 3
\* largest index / start passed to at and slice
MaxIndex == 3
\* largest amount passed to slice
MaxAmount == 2
\* number of successful append_bucket calls explored
MaxAppends == 1
\* the largest of the values added in ascending order
MaxValue == 7

(***************************************************************************)
(* Small helpers on sequences.                                             *)
(***************************************************************************)
Min(a, b) == IF a <= b THEN a ELSE b

InsertAt(s, pos, x) ==   \* Vec::insert(pos, x), pos 0-based
    SubSeq(s, 1, pos) \o <<x>> \o SubSeq(s, pos + 1, Len(s))

RemoveAt(s, pos) ==      \* Vec::remove(pos), pos 0-based
    SubSeq(s, 1, pos) \o SubSeq(s, pos + 2, Len(s))

(***************************************************************************)
(* SupportedTerm: the closed value type of five kinds, and its order.      *)
(***************************************************************************)
Integer(i)   == [kind |-> "Integer",   int |-> i]
Atom(s)      == [kind |-> "Atom",      name |-> s]
Tuple(ts)    == [kind |-> "Tuple",     elems |-> ts]
List(ts)     == [kind |-> "List",      items |-> ts]
Bitstring(b) == [kind |-> "Bitstring", bytes |-> b]

Rank(v) ==
    CASE v.kind = "Integer"   -> 0
      [] v.kind = "Atom"      -> 1
      [] v.kind = "Tuple"     -> 2
      [] v.kind = "List"      -> 3
      [] v.kind = "Bitstring" -> 4

CmpInt(a, b) == IF a < b THEN "Less" ELSE IF a > b THEN "Greater" ELSE "Equal"

\* a comparison of byte strings that looks at the first byte alone
CmpBytes_first_byte(a, b) ==
    IF a = <<>> /\ b = <<>> THEN "Equal"
    ELSE IF a = <<>> THEN "Less"
    ELSE IF b = <<>> THEN "Greater"
    ELSE CmpInt(Head(a), Head(b))

\* byte-wise lexicographic comparison; a proper prefix precedes
RECURSIVE CmpBytes(_, _)
CmpBytes(a, b) ==
    IF a = <<>> /\ b = <<>> THEN "Equal"
    ELSE IF a = <<>> THEN "Less"
    ELSE IF b = <<>> THEN "Greater"
    ELSE IF Head(a) # Head(b) THEN CmpInt(Head(a), Head(b))
    ELSE CmpBytes(Tail(a), Tail(b))

RECURSIVE compare(_, _)
\* pairwise comparison of two element sequences, shorter first on a tie
RECURSIVE CmpElems(_, _)
CmpElems(a, b) ==
    IF a = <<>> /\ b = <<>> THEN "Equal"
    ELSE IF a = <<>> THEN "Less"
    ELSE IF b = <<>> THEN "Greater"
    ELSE LET c == compare(Head(a), Head(b))
         IN  IF c # "Equal" THEN c ELSE CmpElems(Tail(a), Tail(b))

compare(a, b) ==
    IF Rank(a) # Rank(b) THEN CmpInt(Rank(a), Rank(b))
    ELSE CASE a.kind = "Integer"   -> CmpInt(a.int, b.int)
           [] a.kind = "Atom"      -> CmpBytes(a.name, b.name)
           [] a.kind = "Tuple"     ->
                IF Len(a.elems) # Len(b.elems)
                THEN CmpInt(Len(a.elems), Len(b.elems))
                ELSE CmpElems(a.elems, b.elems)
           [] a.kind = "List"      -> CmpElems(a.items, b.items)
           [] a.kind = "Bitstring" -> CmpBytes(a.bytes, b.bytes)

(***************************************************************************)
(* What the code outside src/ decides and spec.md leaves open.  Each is    *)
(* fixed when the program is built and stays as it is through a run; a run *)
(* may be of any build.                                                    *)
(***************************************************************************)
VARIABLES
    emptied_order,    \* the Ordering item_compare gives for a bucket without elements
    atom_reading      \* what atom_to_string makes of the latin1 bytes of a name

Orderings == {"Less", "Equal", "Greater"}

\* the latin1 bytes of an atom's name are taken as its characters, one byte
\* each, or are passed through String::from_utf8
AtomReadings == {"characters", "from_utf8"}

(***************************************************************************)
(* Foreign terms, as the host hands them to the NIFs (rustler::Term).      *)
(***************************************************************************)
TInt(i)      == [type |-> "integer",  int |-> i]      \* fits a 64-bit signed
\* an integer beyond i64: words are its four 16-bit words, the highest
\* first, when it is one of 2^63 .. 2^64 - 1, and <<>> when it is any other
TBig(words)  == [type |-> "bignum",   words |-> words]
TFloat       == [type |-> "float"]
TAtom(s)     == [type |-> "atom",     name |-> s]      \* s: the name's UTF-8 text
TTuple(ts)   == [type |-> "tuple",    elems |-> ts]
TList(ts)    == [type |-> "list",     items |-> ts]
TImproper    == [type |-> "improper_list"]            \* [1 | 2]
TBinary(b)   == [type |-> "binary",   bytes |-> b]
TPid         == [type |-> "pid"]
TRef         == [type |-> "reference"]                \* a valid set handle
None         == [type |-> "none"]
Panicked     == [type |-> "panic"]                    \* the call unwinds

is_number(t) == t.type \in {"integer", "bignum", "float"}
is_atom(t)   == t.type = "atom"
is_tuple(t)  == t.type = "tuple"
is_list(t)   == t.type \in {"list", "improper_list"}
is_binary(t) == t.type = "binary"

StrOk(s) == [tag |-> "Ok", str |-> s]
StrErr   == [tag |-> "Err"]

\* a UTF-8 continuation byte
Cont(b) == b \in 128..191

\* UTF-8 text whose code points are all below 256: what ERL_NIF_LATIN1 can carry
RECURSIVE IsLatin1(_)
IsLatin1(s) ==
    IF s = <<>> THEN TRUE
    ELSE IF Head(s) < 128 THEN IsLatin1(Tail(s))
    ELSE IF Head(s) \in {194, 195} /\ Len(s) >= 2 /\ Cont(s[2])
         THEN IsLatin1(SubSeq(s, 3, Len(s)))
    ELSE FALSE

\* the bytes are well-formed UTF-8 (std::str::from_utf8)
RECURSIVE IsUtf8(_)
IsUtf8(s) ==
    IF s = <<>> THEN TRUE
    ELSE IF Head(s) < 128 THEN IsUtf8(Tail(s))
    ELSE IF Head(s) \in 194..223
         THEN Len(s) >= 2 /\ Cont(s[2]) /\ IsUtf8(SubSeq(s, 3, Len(s)))
    ELSE IF Head(s) \in 224..239
         THEN /\ Len(s) >= 3
              /\ s[2] \in (CASE Head(s) = 224 -> 160..191
                             [] Head(s) = 237 -> 128..159
                             [] OTHER         -> 128..191)
              /\ Cont(s[3])
              /\ IsUtf8(SubSeq(s, 4, Len(s)))
    ELSE IF Head(s) \in 240..244
         THEN /\ Len(s) >= 4
              /\ s[2] \in (CASE Head(s) = 240 -> 144..191
                             [] Head(s) = 244 -> 128..143
                             [] OTHER         -> 128..191)
              /\ Cont(s[3])
              /\ Cont(s[4])
              /\ IsUtf8(SubSeq(s, 5, Len(s)))
    ELSE FALSE

\* the latin1 bytes of a name whose code points are all below 256: one byte
\* for each character
RECURSIVE Latin1Bytes(_)
Latin1Bytes(s) ==
    IF s = <<>> THEN <<>>
    ELSE IF Head(s) < 128 THEN <<Head(s)>> \o Latin1Bytes(Tail(s))
    ELSE <<(Head(s) - 192) * 64 + (s[2] - 128)>> \o Latin1Bytes(SubSeq(s, 3, Len(s)))

\* Term::atom_to_string: the name is fetched as latin1, which fails for a name
\* latin1 lacks.  The text is then the name's characters, or what
\* String::from_utf8 makes of the latin1 bytes: Err when they are no UTF-8,
\* other text than the name when they are.  An ASCII name reads the same
\* either way
atom_to_string(name) ==
    IF ~IsLatin1(name) THEN StrErr
    ELSE IF atom_reading = "characters" THEN StrOk(name)
    ELSE IF IsUtf8(Latin1Bytes(name)) THEN StrOk(Latin1Bytes(name))
    ELSE StrErr

\* term.decode() of a binary into the text payload: Err unless it is UTF-8
decode_string(bytes) == IF IsUtf8(bytes) THEN StrOk(bytes) ELSE StrErr

\* the atom arm: Ok(a) => Some(Atom(a)), Err(_) => None
atom_arm(a) == IF a.tag = "Ok" THEN Atom(a.str) ELSE None

\* the binary arm: Ok(b) => Some(Bitstring(b)), Err(_) => None
binary_arm(b) == IF b.tag = "Ok" THEN Bitstring(b.str) ELSE None

RECURSIVE convert_to_supported_term(_)
Collected(terms) == [panic |-> FALSE, terms |-> terms]
Unwound          == [panic |-> TRUE]

\* c, the conversion of the first element, put before the collected rest
collect_after(c, rest) ==
    IF c = Panicked \/ rest.panic THEN Unwound
    ELSE IF c = None THEN rest
    ELSE Collected(<<c>> \o rest.terms)

\* filter_map(convert_to_supported_term).collect(): the convertible elements;
\* a panic in the conversion of an element unwinds the collection
RECURSIVE FilterMapConvert(_)
FilterMapConvert(ts) ==
    IF ts = <<>> THEN Collected(<<>>)
    ELSE collect_after(convert_to_supported_term(Head(ts)), FilterMapConvert(Tail(ts)))

\* the tuple arm once the elements are collected
tuple_arm(initial_length, inner) ==
    IF inner.panic THEN Panicked
    ELSE IF initial_length = Len(inner.terms) THEN Tuple(inner.terms)
    ELSE None

\* the list arm once the elements are collected
list_arm(initial_length, inner) ==
    IF inner.panic THEN Panicked
    ELSE IF initial_length = Len(inner.terms) THEN List(inner.terms)
    ELSE None

convert_to_supported_term(term) ==
    IF is_number(term) THEN
        IF term.type = "integer" THEN Integer(term.int) ELSE None
    ELSE IF is_atom(term) THEN atom_arm(atom_to_string(term.name))
    ELSE IF is_tuple(term) THEN
        tuple_arm(Len(term.elems), FilterMapConvert(term.elems))
    ELSE IF is_list(term) THEN
        \* decode::<Vec<Term>>() walks the list and panics at an improper tail
        IF term.type = "improper_list" THEN Panicked
        ELSE list_arm(Len(term.items), FilterMapConvert(term.items))
    ELSE IF is_binary(term) THEN binary_arm(decode_string(term.bytes))
    ELSE None

\* the host's term for a supported value (Encoder for SupportedTerm)
RECURSIVE ToTerm(_)
ToTerm(v) ==
    CASE v.kind = "Integer"   -> TInt(v.int)
      [] v.kind = "Atom"      -> TAtom(v.name)
      [] v.kind = "Tuple"     -> TTuple([i \in 1..Len(v.elems) |-> ToTerm(v.elems[i])])
      [] v.kind = "List"      -> TList([i \in 1..Len(v.items) |-> ToTerm(v.items[i])])
      [] v.kind = "Bitstring" -> TBinary(v.bytes)

(***************************************************************************)
(* Bucket: a bounded ascending run of values.                              *)
(***************************************************************************)
Ok(i)  == [tag |-> "Ok",  idx |-> i]
Err(i) == [tag |-> "Err", idx |-> i]

\* locate: binary search of data[lo..hi) (0-based) for item
RECURSIVE BinarySearch(_, _, _, _)
BinarySearch(data, item, lo, hi) ==
    IF lo >= hi THEN Err(lo)
    ELSE LET mid == lo + (hi - lo) \div 2
             c   == compare(data[mid + 1], item)
         IN  IF c = "Equal" THEN Ok(mid)
             ELSE IF c = "Less" THEN BinarySearch(data, item, mid + 1, hi)
             ELSE BinarySearch(data, item, lo, mid)

locate(data, item) == BinarySearch(data, item, 0, Len(data))

\* split: two contiguous halves, the first keeps len/2 elements
split(data) ==
    LET at == Len(data) \div 2
    IN  <<SubSeq(data, 1, at), SubSeq(data, at + 1, Len(data))>>

\* where a bucket lies relative to item, by its minimum and maximum: Greater
\* when item is below the minimum, Less when it is above the maximum.  An
\* emptied bucket has no bounds: its Ordering is the build's
item_compare(data, item) ==
    IF data = <<>> THEN emptied_order
    ELSE IF compare(item, Head(data)) = "Less" THEN "Greater"
    ELSE IF compare(data[Len(data)], item) = "Less" THEN "Less"
    ELSE "Equal"

(***************************************************************************)
(* SortedSet: an ordered list of buckets under a fixed max_bucket_size.    *)
(***************************************************************************)
Added(i)     == [kind |-> "Added", idx |-> i]
Duplicate(i) == [kind |-> "Duplicate", idx |-> i]
Removed(i)   == [kind |-> "Removed", idx |-> i]
NotFound     == [kind |-> "NotFound"]
Found(b, i, g) == [kind |-> "Found", bucket_idx |-> b, inner_idx |-> i, idx |-> g]
AppendOk     == [kind |-> "Ok"]
MaxBucketSizeExceeded == [kind |-> "MaxBucketSizeExceeded"]
Some(v)      == [kind |-> "Some", value |-> v]
Nothing      == [kind |-> "None"]

\* binary search of buckets[lo..hi) (0-based) by their bounds
RECURSIVE BucketSearch(_, _, _, _)
BucketSearch(bs, item, lo, hi) ==
    IF lo >= hi THEN Err(lo)
    ELSE LET mid == lo + (hi - lo) \div 2
             c   == item_compare(bs[mid + 1], item)
         IN  IF c = "Equal" THEN Ok(mid)
             ELSE IF c = "Less" THEN BucketSearch(bs, item, mid + 1, hi)
             ELSE BucketSearch(bs, item, lo, mid)

\* a search result as a bucket index: past the end means the last bucket
clamp(r, len) == IF r.tag = "Ok" THEN r.idx ELSE Min(r.idx, len - 1)

\* the owning bucket, or the nearest one (0-based); bs is not empty
find_bucket_index(bs, item) == clamp(BucketSearch(bs, item, 0, Len(bs)), Len(bs))

\* global index: lengths of the buckets before bucket_idx, plus inner_idx
RECURSIVE effective_index(_, _, _)
effective_index(bs, bucket_idx, inner_idx) ==
    IF bucket_idx = 0 THEN inner_idx
    ELSE Len(bs[bucket_idx]) + effective_index(bs, bucket_idx - 1, inner_idx)

SortedSet_empty == <<>>

SortedSet_append_bucket(bs, m, items) ==
    IF Len(items) > m
    THEN [buckets |-> bs, result |-> MaxBucketSizeExceeded]
    ELSE [buckets |-> Append(bs, items), result |-> AppendOk]

\* add, once the bucket has grown by the item: split it when it is over size
add_grown(bs, m, bucket_idx, grown, idx) ==
    IF Len(grown) > m
    THEN [buckets |-> SubSeq(bs, 1, bucket_idx) \o split(grown)
                        \o SubSeq(bs, bucket_idx + 2, Len(bs)),
          result  |-> Added(idx)]
    ELSE [buckets |-> [bs EXCEPT ![bucket_idx + 1] = grown],
          result  |-> Added(idx)]

\* add, once the bucket and the position in it are known
add_at(bs, m, item, bucket_idx, pos) ==
    IF pos.tag = "Ok"
    THEN [buckets |-> bs,
          result  |-> Duplicate(effective_index(bs, bucket_idx, pos.idx))]
    ELSE add_grown(bs, m, bucket_idx, InsertAt(bs[bucket_idx + 1], pos.idx, item),
                   effective_index(bs, bucket_idx, pos.idx))

\* add, once the bucket is known
add_to_bucket(bs, m, item, bucket_idx) ==
    add_at(bs, m, item, bucket_idx, locate(bs[bucket_idx + 1], item))

SortedSet_add(bs, m, item) ==
    IF Len(bs) = 0 THEN [buckets |-> <<<<item>>>>, result |-> Added(0)]
    ELSE add_to_bucket(bs, m, item, find_bucket_index(bs, item))

\* find_index, once the bucket and the position in it are known
find_at(bs, bucket_idx, pos) ==
    IF pos.tag = "Ok"
    THEN Found(bucket_idx, pos.idx, effective_index(bs, bucket_idx, pos.idx))
    ELSE NotFound

\* find_index, once the bucket is known
find_in_bucket(bs, item, bucket_idx) ==
    find_at(bs, bucket_idx, locate(bs[bucket_idx + 1], item))

SortedSet_find_index(bs, item) ==
    IF Len(bs) = 0 THEN NotFound
    ELSE find_in_bucket(bs, item, find_bucket_index(bs, item))

\* a removal that drops the bucket it has emptied
remove_found_drops_emptied(bs, f) ==
    IF f.kind = "Found"
    THEN [buckets |-> IF Len(bs[f.bucket_idx + 1]) = 1
                      THEN RemoveAt(bs, f.bucket_idx)
                      ELSE [bs EXCEPT ![f.bucket_idx + 1] = RemoveAt(@, f.inner_idx)],
          result  |-> Removed(f.idx)]
    ELSE [buckets |-> bs, result |-> NotFound]

\* remove, once the item has been looked up
remove_found(bs, f) ==
    IF f.kind = "Found"
    THEN [buckets |-> [bs EXCEPT ![f.bucket_idx + 1] = RemoveAt(@, f.inner_idx)],
          result  |-> Removed(f.idx)]
    ELSE [buckets |-> bs, result |-> NotFound]

SortedSet_remove(bs, item) == remove_found(bs, SortedSet_find_index(bs, item))

RECURSIVE SumLens(_, _)
SumLens(bs, k) == IF k = 0 THEN 0 ELSE Len(bs[k]) + SumLens(bs, k - 1)

SortedSet_size(bs) == SumLens(bs, Len(bs))

RECURSIVE Flatten(_, _)
Flatten(bs, k) == IF k > Len(bs) THEN <<>> ELSE bs[k] \o Flatten(bs, k + 1)

SortedSet_to_vec(bs) == Flatten(bs, 1)

\* A usize is kept as its four 16-bit words, the highest first, so that the
\* indexes from 2^63 to 2^64 - 1 are the numbers they are.
Word == 65536

\* the usize of a number n, 0 <= n < 2^31
Usize(n) == <<0, 0, n \div Word, n % Word>>

\* the usize is below 2^31
USmall(u) == u[1] = 0 /\ u[2] = 0 /\ u[3] < Word \div 2

\* the number of a usize below 2^31
UInt(u) == u[3] * Word + u[4]

\* u < n, for a number n
ULess(u, n) == USmall(u) /\ UInt(u) < n

\* the difference of two words and the borrow taken, as <<word, borrow>>
SubWord(a, b) == IF a >= b THEN <<a - b, 0>> ELSE <<a - b + Word, 1>>

\* u - n for a number n <= u, the borrows carried from the lowest word up
USub(u, n) ==
    LET w4 == SubWord(u[4], n % Word)
        w3 == SubWord(u[3], (n \div Word) + w4[2])
        w2 == SubWord(u[2], w3[2])
    IN  <<u[1] - w2[2], w2[1], w3[1], w4[1]>>

\* walk the buckets from the k-th, index counted from its first element
RECURSIVE AtWalk(_, _, _)
AtWalk(bs, k, index) ==
    IF k > Len(bs) THEN Nothing
    ELSE IF ULess(index, Len(bs[k])) THEN Some(bs[k][UInt(index) + 1])
    ELSE AtWalk(bs, k + 1, USub(index, Len(bs[k])))

SortedSet_at(bs, index) == AtWalk(bs, 1, index)

RECURSIVE SliceWalk(_, _, _, _)
SliceWalk(bs, k, start, amount) ==
    IF k > Len(bs) \/ amount = Usize(0) THEN <<>>
    ELSE IF ~ULess(start, Len(bs[k]))
         THEN SliceWalk(bs, k + 1, USub(start, Len(bs[k])), amount)
    ELSE LET room == Len(bs[k]) - UInt(start)
             take == IF ULess(amount, room) THEN UInt(amount) ELSE room
         IN  SubSeq(bs[k], UInt(start) + 1, UInt(start) + take)
               \o SliceWalk(bs, k + 1, Usize(0), USub(amount, take))

SortedSet_slice(bs, start, amount) == SliceWalk(bs, 1, start, amount)

\* the structural dump: the buckets' sizes, in order
SortedSet_debug(bs) == [k \in 1..Len(bs) |-> Len(bs[k])]

(***************************************************************************)
(* The NIFs of lib.rs.  A call is <<handle, arguments...>> of foreign      *)
(* terms; what it returns is the encoded Erlang term.                      *)
(***************************************************************************)
RetError(reason)   == [tag |-> "error", reason |-> reason]      \* {:error, reason}
RetBadArg          == [tag |-> "badarg"]                        \* Err(Error::BadArg)
RetPanic           == [tag |-> "nif_panicked"]                  \* the NIF raises
RetOk              == [tag |-> "ok"]                            \* :ok
RetOkIdx(what, i)  == [tag |-> "ok", what |-> what, idx |-> i]  \* {:ok, what, idx}
RetFound(i)        == [tag |-> "ok", idx |-> i]                 \* {:ok, idx}
RetValue(v)        == [tag |-> "ok", value |-> v]               \* {:ok, value}
RetList(l)         == [tag |-> "list", items |-> l]             \* [values]
RetSize(n)         == [tag |-> "size", n |-> n]                 \* n
RetDebug(d)        == [tag |-> "ok", debug |-> d]               \* {:ok, string}

Return(ret)  == [go |-> FALSE, ret |-> ret]
Proceed(a)   == [go |-> TRUE, args |-> a]

\* args[0].decode::<ResourceArc<SortedSetResource>>()
is_resource(hnd) == hnd.type = "reference"

\* args[i].decode::<usize>() is Ok: an integer from 0 to 2^64 - 1
is_usize(t) ==
    \/ t.type = "integer" /\ t.int >= 0
    \/ t.type = "bignum" /\ t.words # <<>>

\* the usize that args[i].decode::<usize>() gives
decode_usize(t) == IF t.type = "integer" THEN Usize(t.int) ELSE t.words

\* the part of each NIF before try_lock: decode the handle, convert the arguments
item_args(args) ==        \* add, remove, find_index
    IF ~is_resource(args[1]) THEN Return(RetError("bad_reference"))
    ELSE LET item == convert_to_supported_term(args[2])
         IN  IF item = Panicked THEN Return(RetPanic)
             ELSE IF item = None THEN Return(RetError("unsupported_type"))
             ELSE Proceed(<<item>>)

append_bucket_args(args) ==
    IF ~is_resource(args[1]) THEN Return(RetError("bad_reference"))
    ELSE LET items == convert_to_supported_term(args[2])
         IN  IF items = Panicked THEN Return(RetPanic)
             ELSE IF items # None /\ items.kind = "List" THEN Proceed(<<items.items>>)
             ELSE Return(RetError("unsupported_type"))

at_args(args) ==
    IF ~is_resource(args[1]) THEN Return(RetError("bad_reference"))
    ELSE IF ~is_usize(args[2]) THEN Return(RetBadArg)
    ELSE Proceed(<<decode_usize(args[2])>>)

slice_args(args) ==
    IF ~is_resource(args[1]) THEN Return(RetError("bad_reference"))
    ELSE IF ~is_usize(args[2]) \/ ~is_usize(args[3]) THEN Return(RetBadArg)
    ELSE Proceed(<<decode_usize(args[2]), decode_usize(args[3])>>)

handle_args(args) ==      \* size, to_list, debug
    IF ~is_resource(args[1]) THEN Return(RetError("bad_reference"))
    ELSE Proceed(<<>>)

NifArgs(op, args) ==
    CASE op \in {"add", "remove", "find_index"} -> item_args(args)
      [] op = "append_bucket"                   -> append_bucket_args(args)
      [] op = "at"                              -> at_args(args)
      [] op = "slice"                           -> slice_args(args)
      [] op \in {"size", "to_list", "debug"}    -> handle_args(args)

\* a lock that is handed out whether or not it is held
try_lock_ignores_holder(l) == "Ok"

\* Mutex::try_lock on a mutex whose state is l: Err when it is held
try_lock(l) == IF l THEN "Err" ELSE "Ok"

\* Vec<SupportedTerm>::encode
Encode(vs) == [i \in 1..Len(vs) |-> ToTerm(vs[i])]

\* the part of each NIF under the guard: one engine call, and its encoding
\* the match arms of each NIF: the engine's result r as the returned term
\* the index answered one-based
add_match_one_based(r) ==
    [buckets |-> r.buckets,
     ret |-> IF r.result.kind = "Added" THEN RetOkIdx("added", r.result.idx + 1)
             ELSE RetOkIdx("duplicate", r.result.idx + 1)]

add_match(r) ==
    [buckets |-> r.buckets,
     ret |-> IF r.result.kind = "Added" THEN RetOkIdx("added", r.result.idx)
             ELSE RetOkIdx("duplicate", r.result.idx)]

\* NotFound answered as a removal at index 0
remove_match_always_removed(r) ==
    [buckets |-> r.buckets,
     ret |-> IF r.result.kind = "Removed" THEN RetOkIdx("removed", r.result.idx)
             ELSE RetOkIdx("removed", 0)]

remove_match(r) ==
    [buckets |-> r.buckets,
     ret |-> IF r.result.kind = "Removed" THEN RetOkIdx("removed", r.result.idx)
             ELSE RetError("not_found")]

find_index_match(bs, r) ==
    [buckets |-> bs,
     ret |-> IF r.kind = "Found" THEN RetFound(r.idx) ELSE RetError("not_found")]

append_bucket_match(r) ==
    [buckets |-> r.buckets,
     ret |-> IF r.result.kind = "Ok" THEN RetOk
             ELSE RetError("max_bucket_size_exceeded")]

at_match(bs, r) ==
    [buckets |-> bs,
     ret |-> IF r.kind = "None" THEN RetError("index_out_of_bounds")
             ELSE RetValue(ToTerm(r.value))]

\* the engine called with a bucket size one over the configured one
add_locked_one_over(bs, m, a) == add_match(SortedSet_add(bs, m + 1, a[1]))

add_locked(bs, m, a) == add_match(SortedSet_add(bs, m, a[1]))

remove_locked(bs, a) == remove_match(SortedSet_remove(bs, a[1]))

find_index_locked(bs, a) == find_index_match(bs, SortedSet_find_index(bs, a[1]))

\* both results of the engine encoded as :ok
append_bucket_locked_always_ok(bs, m, a) ==
    [buckets |-> SortedSet_append_bucket(bs, m, a[1]).buckets, ret |-> RetOk]

append_bucket_locked(bs, m, a) == append_bucket_match(SortedSet_append_bucket(bs, m, a[1]))

\* the index taken as one-based
at_locked_one_based(bs, a) ==
    at_match(bs, IF a[1] = Usize(0) THEN Nothing ELSE SortedSet_at(bs, USub(a[1], 1)))

at_locked(bs, a) == at_match(bs, SortedSet_at(bs, a[1]))

\* start and amount passed in the other order
slice_locked_swapped(bs, a) ==
    [buckets |-> bs, ret |-> RetList(Encode(SortedSet_slice(bs, a[2], a[1])))]

slice_locked(bs, a) ==
    [buckets |-> bs, ret |-> RetList(Encode(SortedSet_slice(bs, a[1], a[2])))]

\* the number of buckets returned for the number of elements
size_locked_counts_buckets(bs) == [buckets |-> bs, ret |-> RetSize(Len(bs))]

size_locked(bs) == [buckets |-> bs, ret |-> RetSize(SortedSet_size(bs))]

to_list_locked(bs) == [buckets |-> bs, ret |-> RetList(Encode(SortedSet_to_vec(bs)))]

debug_locked(bs) == [buckets |-> bs, ret |-> RetDebug(SortedSet_debug(bs))]

NifLocked(op, bs, m, a) ==
    CASE op = "add"           -> add_locked(bs, m, a)
      [] op = "remove"        -> remove_locked(bs, a)
      [] op = "find_index"    -> find_index_locked(bs, a)
      [] op = "append_bucket" -> append_bucket_locked(bs, m, a)
      [] op = "at"            -> at_locked(bs, a)
      [] op = "slice"         -> slice_locked(bs, a)
      [] op = "size"          -> size_locked(bs)
      [] op = "to_list"       -> to_list_locked(bs)
      [] op = "debug"         -> debug_locked(bs)

(***************************************************************************)
(* State.                                                                  *)
(***************************************************************************)
VARIABLES
    buckets,          \* SortedSet.buckets of the one set behind the handle
    max_bucket_size,  \* Configuration.max_bucket_size, fixed at creation
    locked,           \* the state of the resource's Mutex
    call,             \* per thread: the NIF call that holds the guard, or Idle
    last,             \* history: the call that returned last, and the buckets before it
    members,          \* history: the values added and not removed since
    appends           \* history: the number of buckets appended

vars == <<buckets, max_bucket_size, locked, call, last, members, appends,
          emptied_order, atom_reading>>

\* what is fixed for the whole of a run
fixed == <<max_bucket_size, emptied_order, atom_reading>>

Threads == {1, 2}

Idle == [op |-> "idle"]

Elems(seq) == {seq[i] : i \in 1..Len(seq)}

\* empty / new: a set of zero buckets under the given max_bucket_size
Init ==
    /\ max_bucket_size \in 1..MaxBucketSize
    /\ emptied_order \in Orderings
    /\ atom_reading \in AtomReadings
    /\ buckets = SortedSet_empty
    /\ locked = FALSE
    /\ call = [t \in Threads |-> Idle]
    /\ last = [op |-> "none"]
    /\ members = {}
    /\ appends = 0

Returned(op, args, ret) ==
    [op |-> op, args |-> args, ret |-> ret, pre |-> buckets]

\* the value a caller means by a term it passes
RECURSIVE Meant(_)
Meant(term) ==
    CASE term.type = "integer" -> Integer(term.int)
      [] term.type = "atom"    -> Atom(term.name)
      [] term.type = "tuple"   -> Tuple([i \in 1..Len(term.elems) |-> Meant(term.elems[i])])
      [] term.type = "list"    -> List([i \in 1..Len(term.items) |-> Meant(term.items[i])])
      [] term.type = "binary"  -> Bitstring(term.bytes)

MembersAfter(op, args, ret) ==
    CASE op = "add"    -> members \cup {Meant(args[2])}
      [] op = "remove" -> members \ {Meant(args[2])}
      [] op = "append_bucket" /\ ret.tag = "ok" -> members \cup Elems(Meant(args[2]).items)
      [] OTHER -> members

AppendsAfter(op, ret) ==
    IF op = "append_bucket" /\ ret.tag = "ok" THEN appends + 1 ELSE appends

\* the model explores a call only while its outcome stays within the bounds
WithinBounds(op, r) ==
    /\ Len(r.buckets) <= MaxBuckets
    /\ AppendsAfter(op, r.ret) <= MaxAppends

\* a NIF that returns before it takes the lock
ReturnEarly(op, args, ret) ==
    /\ last' = Returned(op, args, ret)
    /\ UNCHANGED <<buckets, fixed, locked, call, members, appends>>

\* a return that keeps the guard: the mutex stays locked after the call
ReturnLocked_keeps_guard(t, op, args, r) ==
    /\ WithinBounds(op, r)
    /\ buckets' = r.buckets
    /\ last' = Returned(op, args, r.ret)
    /\ members' = MembersAfter(op, args, r.ret)
    /\ appends' = AppendsAfter(op, r.ret)
    /\ locked' = locked
    /\ call' = [call EXCEPT ![t] = Idle]
    /\ UNCHANGED fixed

\* the return of a call whose engine call came out as r, and the guard's drop
ReturnLocked(t, op, args, r) ==
    /\ WithinBounds(op, r)
    /\ buckets' = r.buckets
    /\ last' = Returned(op, args, r.ret)
    /\ members' = MembersAfter(op, args, r.ret)
    /\ appends' = AppendsAfter(op, r.ret)
    /\ locked' = FALSE
    /\ call' = [call EXCEPT ![t] = Idle]
    /\ UNCHANGED fixed

\* the engine call under the guard, the return, and the guard's drop
RunLocked(t, op, args, a) ==
    ReturnLocked(t, op, args, NifLocked(op, buckets, max_bucket_size, a))

\* a whole NIF call by thread t, its arguments decoded as p
HandlerDecoded(t, op, args, p) ==
    IF ~p.go THEN ReturnEarly(op, args, p.ret)
    ELSE IF try_lock(locked) = "Err"
         THEN ReturnEarly(op, args, RetError("lock_fail"))
    ELSE RunLocked(t, op, args, p.args)

\* a whole NIF call by thread t that no other thread's step interleaves
Handler(t, op, args) ==
    /\ call[t] = Idle
    /\ HandlerDecoded(t, op, args, NifArgs(op, args))

\* the guard taken and the engine call made, with r its outcome: the set
\* shows the outcome to other calls once the guard is dropped
EnterLocked(t, op, args, r) ==
    /\ WithinBounds(op, r)
    /\ locked' = TRUE
    /\ call' = [call EXCEPT ![t] = [op |-> op, args |-> args, r |-> r]]
    /\ UNCHANGED <<buckets, fixed, last, members, appends>>

\* a NIF call by thread t up to its engine call, its arguments decoded as p
EnterDecoded(t, op, args, p) ==
    IF ~p.go THEN ReturnEarly(op, args, p.ret)
    ELSE IF try_lock(locked) = "Err"
         THEN ReturnEarly(op, args, RetError("lock_fail"))
    ELSE EnterLocked(t, op, args, NifLocked(op, buckets, max_bucket_size, p.args))

\* a NIF call by thread t up to its engine call, the guard held
Enter(t, op, args) ==
    /\ call[t] = Idle
    /\ EnterDecoded(t, op, args, NifArgs(op, args))

\* the call of the thread that holds the guard returns, and the guard drops
Leave(t) ==
    /\ call[t] # Idle
    /\ ReturnLocked(t, call[t].op, call[t].args, call[t].r)

(***************************************************************************)
(* The inputs the calls are drawn from.                                    *)
(***************************************************************************)
\* a value of each of the five kinds
Values ==
    {Integer(1), Atom(<<97>>), Tuple(<<Integer(2)>>), List(<<Integer(1)>>),
     Bitstring(<<>>)}

\* the values of the calls that run beside append_bucket
BulkValues == {Integer(1), Integer(2)}

\* the items of append_bucket: of every length up to one more than fits, in no
\* order (an atom sorts after an integer), and a single low value
Alternating(n) == [i \in 1..n |-> IF i % 2 = 1 THEN Atom(<<97>>) ELSE Integer(1)]

AppendLists == {Alternating(n) : n \in 0..(MaxBucketSize + 1)} \cup {<<Integer(1)>>}

ListTerm(q) == TList([i \in 1..Len(q) |-> ToTerm(q[i])])

Terms(vals) == {ToTerm(v) : v \in vals}

AppendTerms == {ListTerm(q) : q \in AppendLists}

\* 2^63 and 2^64 - 1: the least and the greatest usize beyond i64
Usize63 == <<Word \div 2, 0, 0, 0>>
UsizeMax == <<Word - 1, Word - 1, Word - 1, Word - 1>>

IndexTerms == {TInt(i) : i \in 0..MaxIndex} \cup {TBig(Usize63), TBig(UsizeMax)}

AmountTerms == {TInt(i) : i \in 0..MaxAmount}

\* the starts and amounts of the slices, those beyond i64 among them
SliceTerms ==
    ({TInt(i) : i \in 0..MaxIndex} \X AmountTerms)
    \cup {<<TBig(Usize63), TInt(1)>>, <<TInt(0), TBig(Usize63)>>,
          <<TInt(1), TBig(UsizeMax)>>, <<TBig(UsizeMax), TBig(UsizeMax)>>}

(***************************************************************************)
(* One caller with a valid handle and supported arguments: every NIF call  *)
(* runs from its entry to its return.                                      *)
(***************************************************************************)
add(hnd, term)             == Handler(1, "add", <<hnd, term>>)
remove(hnd, term)          == Handler(1, "remove", <<hnd, term>>)
find_index(hnd, term)      == Handler(1, "find_index", <<hnd, term>>)
append_bucket(hnd, term)   == Handler(1, "append_bucket", <<hnd, term>>)
at(hnd, index)             == Handler(1, "at", <<hnd, index>>)
slice(hnd, start, amount)  == Handler(1, "slice", <<hnd, start, amount>>)
size(hnd)                  == Handler(1, "size", <<hnd>>)
to_list(hnd)               == Handler(1, "to_list", <<hnd>>)
debug(hnd)                 == Handler(1, "debug", <<hnd>>)

\* every NIF, append_bucket with whatever items
Next ==
    \/ \E term \in Terms(BulkValues) : add(TRef, term)
    \/ \E term \in Terms(BulkValues) : remove(TRef, term)
    \/ \E term \in Terms(BulkValues) : find_index(TRef, term)
    \/ \E term \in AppendTerms :
          /\ Len(term.items) <= max_bucket_size + 1
          /\ append_bucket(TRef, term)
    \/ \E index \in IndexTerms : at(TRef, index)
    \/ \E p \in SliceTerms : slice(TRef, p[1], p[2])
    \/ size(TRef)
    \/ to_list(TRef)
    \/ debug(TRef)

Spec == Init /\ [][Next]_vars

\* a set that only add and remove change, with values of all five kinds
NextAddRemove ==
    \/ \E term \in Terms(Values) : add(TRef, term)
    \/ \E term \in Terms(Values) : remove(TRef, term)
    \/ \E term \in Terms(Values) : find_index(TRef, term)
    \/ size(TRef)
    \/ to_list(TRef)
    \/ debug(TRef)

SpecAddRemove == Init /\ [][NextAddRemove]_vars

(***************************************************************************)
(* Two scheduler threads calling the NIFs on the one handle, with terms of *)
(* every shape.  A call that takes the lock holds it until its Leave step. *)
(***************************************************************************)
\* the value the concurrent calls add, remove and look up; append_bucket
\* brings a second one
ConcValues == {Integer(1)}

\* terms that are none of the five kinds, one of them deep inside a list:
\* a float, integers beyond i64, an improper list and a list that holds one
BadTerms ==
    {TFloat, TBig(<<>>), TBig(Usize63), TList(<<TTuple(<<TAtom(<<97>>), TPid>>)>>),
     TImproper, TList(<<TFloat, TImproper>>)}

\* terms of the five kinds whose payload the conversion may not take: an atom
\* beyond latin1, an atom whose latin1 bytes are no UTF-8, an atom whose
\* latin1 bytes are the UTF-8 of other text, a binary that is no text
PayloadTerms ==
    {TAtom(<<230, 151, 165>>), TAtom(<<195, 169>>), TAtom(<<195, 131, 194, 169>>),
     TBinary(<<255>>)}

\* the concurrent calls are made on a set of max_bucket_size 1
InitConc == Init /\ max_bucket_size = 1

ConcCalls ==
    {[op |-> "add", args |-> <<TRef, t>>] :
        t \in Terms(ConcValues) \cup BadTerms \cup PayloadTerms}
    \cup {[op |-> o, args |-> <<TRef, t>>] :
        o \in {"remove", "find_index"},
        t \in Terms(ConcValues) \cup {TFloat, TImproper, TBinary(<<255>>)}}
    \cup {[op |-> "append_bucket", args |-> <<TRef, t>>] :
        t \in {ListTerm(<<Integer(2)>>), ListTerm(<<Integer(2), Integer(1)>>)}
              \cup {TInt(1), TImproper, TList(<<TInt(1), TTuple(<<TFloat>>)>>)}}
    \cup {[op |-> "at", args |-> <<TRef, i>>] : i \in {TInt(0), TInt(-1)}}
    \cup {[op |-> "slice", args |-> <<TRef, TInt(0), n>>] : n \in {TInt(2), TFloat}}
    \cup {[op |-> o, args |-> <<TRef>>] : o \in {"size", "to_list", "debug"}}
    \cup {[op |-> "add", args |-> <<TPid, TInt(1)>>],
          [op |-> "append_bucket", args |-> <<TPid, TList(<<>>)>>],
          [op |-> "at", args |-> <<TPid, TInt(0)>>],
          [op |-> "slice", args |-> <<TPid, TInt(0), TInt(1)>>],
          [op |-> "size", args |-> <<TPid>>]}

NextConc ==
    \/ \E t \in Threads, c \in ConcCalls : Enter(t, c.op, c.args)
    \/ \E t \in Threads : Leave(t)

SpecConc == InitConc /\ [][NextConc]_vars

LockValues == {Integer(1), Integer(2)}

\* the calls of two threads that contend for the lock: writes, reads, and
\* calls that return before try_lock
LockCalls ==
    {[op |-> o, args |-> <<TRef, t>>] :
        o \in {"add", "remove"}, t \in Terms(LockValues) \cup {TFloat}}
    \cup {[op |-> "at", args |-> <<TRef, TInt(0)>>],
          [op |-> "size", args |-> <<TRef>>],
          [op |-> "size", args |-> <<TPid>>]}

NextLock ==
    \/ \E t \in Threads, c \in LockCalls : Enter(t, c.op, c.args)
    \/ \E t \in Threads : Leave(t)

\* a call that has taken the lock runs on: its engine call is a bounded
\* computation that nothing suspends, so its Leave step is not put off forever
FairLock == \A t \in Threads : WF_vars(Leave(t))

SpecLock == InitConc /\ [][NextLock]_vars /\ FairLock

(***************************************************************************)
(* The properties, and the observations they are stated over.              *)
(***************************************************************************)
ToList == SortedSet_to_vec(buckets)
Size   == SortedSet_size(buckets)

StrictlyAscending(seq) ==
    \A i \in 1..(Len(seq) - 1) : compare(seq[i], seq[i + 1]) = "Less"

HasEmptiedBucket == \E k \in 1..Len(buckets) : buckets[k] = <<>>

\* the last call was op, on a valid handle
LastIs(op) == last.op = op /\ is_resource(last.args[1])

\* C1: after add and remove calls alone, to_list() is the strictly ascending,
\* duplicate-free enumeration of the values added and not removed since
C1_ToListIsSortedMembers ==
    /\ StrictlyAscending(ToList)
    /\ Elems(ToList) = members
    /\ LastIs("to_list") => last.ret = RetList(Encode(ToList))

\* to_list() of a set of three buckets, one of them emptied by a remove
C1_Witness ==
    /\ LastIs("to_list")
    /\ Len(buckets) >= 3
    /\ HasEmptiedBucket
    /\ Len(ToList) >= 3

\* the value passed to the last add, remove or find_index call
LastItem == Meant(last.args[2])

\* C4: add(v) of a value not in the set returns Added(i); a second add(v) right
\* after it returns Duplicate(i) and changes nothing
C4_AddTwice ==
    [][ (last'.op = "add" /\ is_resource(last'.args[1])) =>
          LET v == Meant(last'.args[2])
          IN  /\ v \notin Elems(ToList) => last'.ret.what = "added"
              /\ ( /\ LastIs("add")
                   /\ last.args = last'.args
                   /\ last.ret.what = "added"
                   /\ v \notin Elems(SortedSet_to_vec(last.pre)) )
                 => /\ last'.ret = RetOkIdx("duplicate", last.ret.idx)
                    /\ buckets' = buckets
                    /\ SortedSet_size(buckets') = Size
                    /\ SortedSet_to_vec(buckets') = ToList
      ]_vars

C4_Witness ==
    /\ LastIs("add")
    /\ last.ret.what = "duplicate"
    /\ last.ret.idx >= 2
    /\ Len(buckets) >= 2

\* C5: add(v) of a value not in the set, returning Added(i), followed by
\* remove(v) returns Removed(i) and restores size() and to_list()
C5_AddThenRemove ==
    [][ ( /\ last'.op = "remove" /\ is_resource(last'.args[1])
          /\ LastIs("add")
          /\ last.args = last'.args
          /\ last.ret.what = "added"
          /\ LastItem \notin Elems(SortedSet_to_vec(last.pre)) )
        => /\ last'.ret = RetOkIdx("removed", last.ret.idx)
           /\ SortedSet_to_vec(buckets') = SortedSet_to_vec(last.pre)
           /\ SortedSet_size(buckets') = SortedSet_size(last.pre)
      ]_vars

\* a remove that undid an add which had split a bucket
C5_Witness ==
    /\ LastIs("remove")
    /\ last.ret.tag = "ok"
    /\ last.ret.idx >= 1
    /\ Len(buckets) >= 2
    /\ Meant(last.args[2]) \notin members

\* C6: after add(v) returns Added(i) or Duplicate(i), find_index(v) returns
\* Found with the same i, which is v's position in to_list(): the lengths of
\* the buckets before the owning bucket plus the position in it
C6_FindAfterAdd ==
    [][ ( /\ last'.op = "find_index" /\ is_resource(last'.args[1])
          /\ LastIs("add")
          /\ last.args = last'.args )
        => LET f == SortedSet_find_index(buckets, LastItem)
           IN  /\ last'.ret = RetFound(last.ret.idx)
               /\ last.ret.idx < Len(ToList)
               /\ ToList[last.ret.idx + 1] = LastItem
               /\ f.kind = "Found"
               /\ f.idx = SumLens(buckets, f.bucket_idx) + f.inner_idx
               /\ buckets[f.bucket_idx + 1][f.inner_idx + 1] = LastItem
      ]_vars

C6_Witness ==
    /\ LastIs("find_index")
    /\ last.ret.tag = "ok"
    /\ last.ret.idx >= 2
    /\ Len(buckets) >= 2
    /\ HasEmptiedBucket

\* C7: at(i) is to_list()[i] for i < size(), the out-of-bounds error otherwise
C7_AtIsToList ==
    LastIs("at") =>
        LET i == decode_usize(last.args[2])
        IN  IF ULess(i, Size)
            THEN last.ret = RetValue(ToTerm(ToList[UInt(i) + 1]))
            ELSE last.ret = RetError("index_out_of_bounds")

C7_Witness ==
    /\ LastIs("at")
    /\ last.ret.tag = "ok"
    /\ last.args[2] \in {TInt(i) : i \in 2..MaxIndex}
    /\ HasEmptiedBucket

C7_WitnessOutOfBounds ==
    /\ LastIs("at")
    /\ last.ret.tag = "error"
    /\ last.args[2] = TInt(Size)
    /\ Len(buckets) >= 1

\* list[start .. min(start + amount, Len(list))), for a start and an amount
\* that are usizes: the sum is never formed, so it cannot leave the integers
Clipped(list, start, amount) ==
    IF ~ULess(start, Len(list)) THEN <<>>
    ELSE LET s    == UInt(start)
             room == Len(list) - s
         IN  SubSeq(list, s + 1, s + (IF ULess(amount, room) THEN UInt(amount) ELSE room))

\* C8: slice(start, amount) is to_list() from start up to, not including,
\* min(start + amount, size()): a list, empty when start >= size() or amount = 0
C8_SliceIsToList ==
    LastIs("slice") =>
        LET start  == decode_usize(last.args[2])
            amount == decode_usize(last.args[3])
        IN  last.ret = RetList(Encode(Clipped(ToList, start, amount)))

\* a slice that takes an element before and an element after an emptied
\* bucket, cut short by the end of the set
C8_Witness ==
    /\ LastIs("slice")
    /\ Len(buckets) = 3
    /\ buckets[1] # <<>> /\ buckets[2] = <<>> /\ buckets[3] # <<>>
    /\ last.args[2] = TInt(0)
    /\ Len(last.ret.items) = Size
    /\ ~ULess(decode_usize(last.args[3]), Len(last.ret.items) + 1)

\* C9: append_bucket of more than max_bucket_size items fails and changes
\* nothing; of at most max_bucket_size items returns ok and appends the bucket
C9_AppendBucket ==
    LastIs("append_bucket") =>
        LET items == Meant(last.args[2]).items
        IN  IF Len(items) > max_bucket_size
            THEN /\ last.ret = RetError("max_bucket_size_exceeded")
                 /\ buckets = last.pre
            ELSE /\ last.ret = RetOk
                 /\ buckets = Append(last.pre, items)

C9_Witness ==
    /\ LastIs("append_bucket")
    /\ last.ret = RetOk
    /\ Len(Meant(last.args[2]).items) = max_bucket_size
    /\ Len(buckets) >= 2

C9_WitnessExceeded ==
    /\ LastIs("append_bucket")
    /\ last.ret.tag = "error"
    /\ Len(Meant(last.args[2]).items) = max_bucket_size + 1
    /\ Len(buckets) >= 1

(***************************************************************************)
(* The lock.                                                               *)
(***************************************************************************)
Holders == {t \in Threads : call[t] # Idle}

\* the step is no Leave: every call that holds the guard still holds it
NoLeave == \A t \in Threads : call[t] # Idle => call'[t] = call[t]

\* a term of the five kinds, composites of such terms included: an integer
\* of 64 bits, an atom, a binary, a tuple or a proper list of such terms
RECURSIVE IsSupported(_)
IsSupported(term) ==
    \/ term.type \in {"integer", "atom", "binary"}
    \/ term.type = "tuple" /\ \A i \in 1..Len(term.elems) : IsSupported(term.elems[i])
    \/ term.type = "list" /\ \A i \in 1..Len(term.items) : IsSupported(term.items[i])

\* a call with a valid handle and supported arguments: values of the five
\* kinds, indexes and amounts that are a usize
WellFormed(op, args) ==
    /\ is_resource(args[1])
    /\ op \in {"add", "remove", "find_index"} => IsSupported(args[2])
    /\ op = "append_bucket" => args[2].type = "list" /\ IsSupported(args[2])
    /\ op = "at" => is_usize(args[2])
    /\ op = "slice" => \A i \in {2, 3} : is_usize(args[i])

\* C2: no two calls hold the set's lock at once
C2_MutualExclusion == Cardinality(Holders) <= 1

\* one call holds the lock while another, a read, has just been turned away
C2_Witness ==
    /\ Cardinality(Holders) = 1
    /\ locked
    /\ last.op = "size"
    /\ last.ret = RetError("lock_fail")

\* C3: a well-formed call made while another call holds the lock returns
\* lock_fail at once: it neither takes nor waits for the lock, and the set
\* stays as it is
C3_FailFast ==
    [][ (Holders # {} /\ NoLeave) =>
          /\ call' = call
          /\ locked' = locked
          /\ buckets' = buckets
          /\ WellFormed(last'.op, last'.args) =>
                last' = [op |-> last'.op, args |-> last'.args,
                         ret |-> RetError("lock_fail"), pre |-> buckets]
      ]_vars

\* a remove turned away while an add holds the lock
C3_Witness ==
    /\ last.op = "remove"
    /\ last.ret = RetError("lock_fail")
    /\ \E t \in Threads : call[t] # Idle /\ call[t].op = "add"
    /\ Len(buckets) >= 1

\* C10: add, remove and find_index of a term that is none of the five kinds,
\* and append_bucket of a term that is no list of such terms, return
\* unsupported_type without taking the lock, held or not; the set is unchanged
C10_UnsupportedType ==
    [][ ( /\ last' # last
          /\ is_resource(last'.args[1])
          /\ \/ /\ last'.op \in {"add", "remove", "find_index"}
                /\ ~IsSupported(last'.args[2])
             \/ /\ last'.op = "append_bucket"
                /\ ~(last'.args[2].type = "list" /\ IsSupported(last'.args[2])) )
        => /\ last'.ret = RetError("unsupported_type")
           /\ UNCHANGED <<buckets, locked, call>>
      ]_vars

\* unsupported_type, for a tuple nested in a list, while another call holds the lock
C10_Witness ==
    /\ last.op \in {"add", "remove", "find_index"}
    /\ last.args[2].type = "list"
    /\ last.ret = RetError("unsupported_type")
    /\ locked
    /\ Holders # {}

(***************************************************************************)
(* Absent values, kinds, sizes and the shape of the bucket list.           *)
(***************************************************************************)
\* C11: remove(v) and find_index(v) of a supported value v that is not in the
\* set return not_found, as a value, and leave the set as it was
C11_NotFound ==
    [][ ( /\ last'.op \in {"remove", "find_index"}
          /\ is_resource(last'.args[1])
          /\ last' # last
          /\ Meant(last'.args[2]) \notin Elems(ToList) )
        => /\ last'.ret = RetError("not_found")
           /\ buckets' = buckets
           /\ SortedSet_to_vec(buckets') = ToList
           /\ SortedSet_size(buckets') = Size
      ]_vars

\* a remove of an absent value from a set with buckets, one of them emptied
C11_Witness ==
    /\ LastIs("remove")
    /\ last.ret = RetError("not_found")
    /\ LastItem \notin Elems(ToList)
    /\ HasEmptiedBucket
    /\ Size >= 1

\* a find_index of a value on a set of zero buckets
C11_WitnessNoBuckets ==
    /\ LastIs("find_index")
    /\ last.ret = RetError("not_found")
    /\ buckets = <<>>

\* C12: of two stored values of different kinds, the one of the lower rank
\* (Integer < Atom < Tuple < List < Bitstring) comes earlier in to_list()
C12_KindRankOrder ==
    \A i, j \in 1..Len(ToList) :
        (i < j /\ ToList[i].kind # ToList[j].kind) => Rank(ToList[i]) < Rank(ToList[j])

\* to_list() of a set that holds values of four kinds or more
C12_Witness ==
    /\ LastIs("to_list")
    /\ Cardinality({ToList[i].kind : i \in 1..Len(ToList)}) >= 4
    /\ Len(buckets) >= 2

\* the sum of a sequence of numbers
RECURSIVE SeqSum(_)
SeqSum(ns) == IF ns = <<>> THEN 0 ELSE Head(ns) + SeqSum(Tail(ns))

\* C14: size() is the number of elements of to_list(), the sum of the lengths
\* of the buckets, whatever adds, removes and append_bucket calls came before
C14_SizeIsLength ==
    /\ Size = Len(ToList)
    /\ Size = SeqSum(SortedSet_debug(buckets))
    /\ LastIs("size") => last.ret = RetSize(Len(ToList))

\* size() of a set grown by append_bucket, with an emptied bucket
C14_Witness ==
    /\ LastIs("size")
    /\ appends >= 1
    /\ HasEmptiedBucket
    /\ Size >= 2
    /\ Size # Len(buckets)

\* C15: after every completed operation each bucket is strictly ascending, and
\* every value of a bucket is less than every value of each later bucket
C15_OrderedBuckets ==
    /\ \A k \in 1..Len(buckets) : StrictlyAscending(buckets[k])
    /\ \A i, j \in 1..Len(buckets) :
          i < j => \A x \in Elems(buckets[i]), y \in Elems(buckets[j]) :
                      compare(x, y) = "Less"

\* an ordered set of three buckets, split by adds, one emptied by a remove
C15_Witness ==
    /\ Len(buckets) >= 3
    /\ HasEmptiedBucket
    /\ Size >= 3
    /\ LastIs("remove")

\* bucket k of bs with v inserted somewhere in it
Grown(bs, k, v) == {InsertAt(bs[k], p, v) : p \in 0..Len(bs[k])}

\* C16: no bucket is ever longer than max_bucket_size; an add puts its value
\* into one bucket, and when that bucket was full it leaves two non-empty
\* buckets in its place, which together are the grown bucket
C16_BucketsWithinSize ==
    [][ /\ \A k \in 1..Len(buckets') : Len(buckets'[k]) <= max_bucket_size
        /\ ( /\ last'.op = "add" /\ is_resource(last'.args[1])
             /\ last'.ret.what = "added"
             /\ buckets # <<>> )
           => \E k \in 1..Len(buckets) :
                 IF Len(buckets[k]) < max_bucket_size
                 THEN /\ Len(buckets') = Len(buckets)
                      /\ buckets'[k] \in Grown(buckets, k, Meant(last'.args[2]))
                      /\ \A i \in 1..Len(buckets) : i # k => buckets'[i] = buckets[i]
                 ELSE /\ Len(buckets') = Len(buckets) + 1
                      /\ buckets'[k] # <<>>
                      /\ buckets'[k + 1] # <<>>
                      /\ buckets'[k] \o buckets'[k + 1]
                            \in Grown(buckets, k, Meant(last'.args[2]))
                      /\ \A i \in 1..Len(buckets) :
                            /\ i < k => buckets'[i] = buckets[i]
                            /\ i > k => buckets'[i + 1] = buckets[i]
      ]_vars

\* an add that split a full bucket of two into halves of one and two
C16_Witness ==
    /\ LastIs("add")
    /\ last.ret.what = "added"
    /\ max_bucket_size = 2
    /\ Len(last.pre) >= 1
    /\ Len(buckets) = Len(last.pre) + 1
    /\ \E k \in 1..(Len(buckets) - 1) : Len(buckets[k]) = 1 /\ Len(buckets[k + 1]) = 2

\* C17: add(v) on a set of zero buckets, as empty and new create it, returns
\* Added(0) and leaves one bucket holding v alone: to_list() = [v], size() = 1
C17_FirstAdd ==
    [][ ( /\ buckets = SortedSet_empty
          /\ last'.op = "add" /\ is_resource(last'.args[1]) )
        => /\ last'.ret = RetOkIdx("added", 0)
           /\ buckets' = <<<<Meant(last'.args[2])>>>>
           /\ SortedSet_to_vec(buckets') = <<Meant(last'.args[2])>>
           /\ SortedSet_size(buckets') = 1
      ]_vars

\* the first add, of a tuple, on a set of zero buckets
C17_Witness ==
    /\ LastIs("add")
    /\ last.pre = SortedSet_empty
    /\ last.ret = RetOkIdx("added", 0)
    /\ LastItem.kind = "Tuple"
    /\ ToList = <<LastItem>>

\* C18: no step makes the bucket list shorter; a remove that returns Removed
\* keeps the number of buckets, takes exactly one element out of one bucket
\* and leaves every other bucket as it was
C18_RemoveKeepsBuckets ==
    [][ /\ Len(buckets') >= Len(buckets)
        /\ ( /\ last'.op = "remove" /\ is_resource(last'.args[1])
             /\ last'.ret.tag = "ok" )
           => /\ Len(buckets') = Len(buckets)
              /\ \E k \in 1..Len(buckets) :
                    /\ \E p \in 0..(Len(buckets[k]) - 1) :
                          /\ buckets[k][p + 1] = Meant(last'.args[2])
                          /\ buckets'[k] = RemoveAt(buckets[k], p)
                    /\ \A i \in 1..Len(buckets) : i # k => buckets'[i] = buckets[i]
      ]_vars

\* a remove that emptied a bucket standing between two others
C18_Witness ==
    /\ LastIs("remove")
    /\ last.ret.tag = "ok"
    /\ Len(buckets) >= 3
    /\ Len(buckets) = Len(last.pre)
    /\ \E k \in 2..(Len(buckets) - 1) : buckets[k] = <<>> /\ Len(last.pre[k]) = 1

(***************************************************************************)
(* The ordering of values on its own: compare applied to triples of values *)
(* of the five kinds, composites nested in composites included.            *)
(***************************************************************************)
CompareValues ==
    {Integer(-1), Integer(1), Integer(2),
     Atom(<<97>>), Atom(<<97, 98>>), Atom(<<98>>),
     Tuple(<<>>), Tuple(<<Integer(2)>>), Tuple(<<Integer(1), Integer(1)>>),
     Tuple(<<List(<<Integer(1)>>)>>),
     List(<<>>), List(<<Integer(1)>>), List(<<Integer(1), Integer(2)>>),
     List(<<Integer(2)>>), List(<<Tuple(<<Integer(2)>>)>>),
     Bitstring(<<>>), Bitstring(<<0>>), Bitstring(<<97>>), Bitstring(<<97, 0>>)}

\* three values to compare, on a set that stays as created
InitCompare ==
    /\ max_bucket_size = 1
    /\ emptied_order \in Orderings
    /\ atom_reading \in AtomReadings
    /\ buckets = SortedSet_empty
    /\ locked = FALSE
    /\ call = [t \in Threads |-> Idle]
    /\ last \in {[op |-> "values", a |-> a, b |-> b, c |-> c] :
                    a \in CompareValues, b \in CompareValues, c \in CompareValues}
    /\ members = {}
    /\ appends = 0

\* the comparisons among the three values
Compare ==
    /\ last.op = "values"
    /\ last' = [op |-> "compare", a |-> last.a, b |-> last.b, c |-> last.c,
                ab |-> compare(last.a, last.b), ba |-> compare(last.b, last.a),
                bc |-> compare(last.b, last.c), ac |-> compare(last.a, last.c)]
    /\ UNCHANGED <<buckets, fixed, locked, call, members, appends>>

NextCompare == Compare

SpecCompare == InitCompare /\ [][NextCompare]_vars

\* C13: compare is a total order: it answers Less, Equal or Greater; Equal for
\* a value and itself and for no other pair; Less one way exactly when Greater
\* the other way; and Less is transitive
C13_TotalOrder ==
    last.op = "compare" =>
        /\ last.ab \in {"Less", "Equal", "Greater"}
        /\ (last.ab = "Equal") <=> (last.a = last.b)
        /\ (last.ab = "Less") <=> (last.ba = "Greater")
        /\ (last.ab = "Less" /\ last.bc = "Less") => last.ac = "Less"

\* three lists in ascending order, the middle one the longest
C13_Witness ==
    /\ last.op = "compare"
    /\ last.a.kind = "List" /\ last.b.kind = "List" /\ last.c.kind = "List"
    /\ last.ab = "Less" /\ last.bc = "Less" /\ last.ac = "Less"
    /\ Len(last.a.items) < Len(last.b.items)
    /\ Len(last.c.items) < Len(last.b.items)

(***************************************************************************)
(* Distinct integers added in ascending order to a newly created set, with *)
(* the reads that observe the outcome.                                     *)
(***************************************************************************)
\* the return of a call whose engine call came out as r, however many buckets
AscendingReturn(op, args, r) ==
    /\ buckets' = r.buckets
    /\ last' = Returned(op, args, r.ret)
    /\ members' = MembersAfter(op, args, r.ret)
    /\ UNCHANGED <<fixed, locked, call, appends>>

\* a whole NIF call on a valid handle with well-formed arguments
AscendingCall(op, args) ==
    /\ try_lock(locked) = "Ok"
    /\ AscendingReturn(op, args,
                       NifLocked(op, buckets, max_bucket_size, NifArgs(op, args).args))

\* add of a value above every value added so far
AddAscending(n) ==
    /\ \A v \in members : v.int < n
    /\ AscendingCall("add", <<TRef, TInt(n)>>)

NextAscending ==
    \/ \E n \in 1..MaxValue : AddAscending(n)
    \/ AscendingCall("size", <<TRef>>)
    \/ AscendingCall("to_list", <<TRef>>)
    \/ AscendingCall("debug", <<TRef>>)

SpecAscending == Init /\ [][NextAscending]_vars

\* the values added so far, in ascending order
RECURSIVE AscendingSeq(_)
AscendingSeq(S) ==
    IF S = {} THEN <<>>
    ELSE LET least == CHOOSE x \in S : \A y \in S : x.int <= y.int
         IN  <<least>> \o AscendingSeq(S \ {least})

\* C19: once m*K + 1 distinct values have been added in ascending order to a
\* new set of max_bucket_size m, the set has more than K buckets, size() is
\* m*K + 1 and to_list() is the added values in ascending order
C19_AscendingSplits ==
    \A K \in 0..MaxValue :
        Cardinality(members) = max_bucket_size * K + 1 =>
            /\ Len(buckets) > K
            /\ Size = max_bucket_size * K + 1
            /\ ToList = AscendingSeq(members)
            /\ LastIs("debug") => Len(last.ret.debug) > K
            /\ LastIs("size") => last.ret = RetSize(max_bucket_size * K + 1)
            /\ LastIs("to_list") => last.ret = RetList(Encode(AscendingSeq(members)))

\* debug() after seven ascending adds under max_bucket_size 2: more than 3 buckets
C19_Witness ==
    /\ LastIs("debug")
    /\ max_bucket_size = 2
    /\ Cardinality(members) = 7
    /\ Len(last.ret.debug) > 3

\* C20: a lock that is held becomes free again: the call that took it runs
\* its engine operation to the end and drops the guard
C20_LockReleased == locked ~> ~locked

\* the lock free again after an add that held it has returned
C20_Witness ==
    /\ ~locked
    /\ Holders = {}
    /\ LastIs("add")
    /\ last.ret.tag = "ok"
    /\ Len(buckets) >= 2

====
